---------------------------- MODULE Spec2Model ----------------------------
(***************************************************************************)
(* Model of the PDF-to-HTML conversion orchestrator:                       *)
(*   backend/app/main.py               upload endpoint, background task,   *)
(*                                     registry (conversion_results)       *)
(*   backend/app/refinement_engine.py  RefinementEngine                    *)
(*   backend/app/gemini_client.py      generator / scorer outcomes, the    *)
(*                                     rate limiter                        *)
(*   backend/app/html_renderer.py      renderer session                    *)
(*   backend/app/pdf_processor.py      page rasterizer                     *)
(*   backend/app/websocket_manager.py  progress publication                *)
(*                                                                         *)
(* Each background conversion is a coroutine whose position is pc[t]; one  *)
(* action models one stretch of code between two collaborator calls.       *)
(* Collaborator outcomes (rasterizer, generator, renderer, scorer) are     *)
(* nondeterministic.  Markup is identified by the call that produced it.   *)
(***************************************************************************)
EXTENDS Naturals, Sequences, FiniteSets, TLC

(* ------------------------------ bounds -------------------------------- *)

\* number of uploads the client makes in the single-conversion specification
MaxUploads == 1

\* number of uploads in the specification of concurrent conversions
ConcUploads == 2

\* largest page count of an uploaded document
MaxPages == 2

\* largest configured MAX_REFINEMENT_ITERATIONS
MaxIter == 2

\* number of distinct page geometries
NumGeoms == 2

\* rate_limit_seconds, in ticks of the timer
RateLimitTicks == 1

\* largest reading of the wall clock
MaxClock == 1

\* number of times an observer opens a websocket
MaxConnects == 2

\* the age below which list_tasks shows a task (86400 seconds in the code), in
\* ticks of the clock
RetentionWindow == 1

\* the length at which _send_message starts to drop the oldest message of a
\* task's history (50 in the code), scaled down
HistoryCap == 2

(* ------------------------- program constants -------------------------- *)

\* refinement_engine.py: quality_analysis.get('overall_score', 7), append(7)
EngineDefaultScore == 7

\* refinement_engine.py: final score when quality_scores is empty
EmptyHistoryScore == 7

\* gemini_client.py: overall_score returned when the JSON reply does not parse
JsonFallbackScore == 7

\* gemini_client.py: overall_score returned when the scoring call fails
AnalysisFailedScore == 5

\* refinement_engine.py: fallback page 'final_quality_score': 0
FallbackScore == 0

\* task ids; the single-conversion specification uses the first MaxUploads of them
Tasks == 1..ConcUploads

Geoms == 1..NumGeoms

\* an uploaded PDF: the geometries of its pages, at least one page
Documents == UNION {[1..n -> Geoms] : n \in 1..MaxPages}

\* overall_score values a well-formed scorer reply carries (1-10 scale)
ValidScores == {3, 9}

\* what analyze_visual_similarity's reply can be
ScoreReplies ==
    [kind : {"json"}, score : ValidScores]
        \cup {[kind |-> k, score |-> 0] :
                k \in {"no_key", "not_a_dict", "bad_json", "api_error"}}

\* the ways the call of the rasterizer in convert_pdf_to_html raises: the three
\* of process_pdf_file, and the attribute lookup on the PDFProcessor instance
ExtractionErrors ==
    {"Invalid or unreadable PDF file", "Failed to get PDF info", "Failed to process PDF",
     "'PDFProcessor' object has no attribute 'process_pdf_file'"}

VARIABLES
    apiKey,               \* GEMINI_API_KEY is configured
    max_iterations,       \* MAX_REFINEMENT_ITERATIONS
    client_files,         \* the documents the client uploads, in order
    uploads,              \* number of task ids handed out so far
    conversion_results,   \* main.py registry: task id -> record
    refinement_engine,    \* the engine singleton has been constructed
    progress_callback,    \* engine.progress_callback: task id of the closure, 0 = None
    active_tasks,         \* engine.active_tasks: task id -> task_info
    html_renderer,        \* engine.html_renderer: its playwright, browser, context
    open_handles,         \* renderer resources that are started and not closed
    pc,                   \* position of each conversion coroutine
    pages_data,           \* rasterizer output of the run
    temp_files,           \* number of raster images of the run in temp_dir
    page_idx,             \* index into pages_data of the page being processed
    converted_pages,      \* page results collected so far
    current_html,         \* _process_single_page local
    refinement_iterations,\* _process_single_page local
    quality_scores,       \* _process_single_page local
    screenshot,           \* a screenshot file of the current iteration exists
    result,               \* value returned by convert_pdf_to_html
    calls,                \* collaborator calls made for the current page
    since_last_call,      \* time.time() - gemini_client.last_call_time, saturating
    rate_limit,           \* position of each coroutine inside _rate_limit
    clock,                \* time.time() as the event timestamps read it
    published,            \* messages handed to _send_message, per task id
    active_connections,   \* websocket_manager.active_connections: the socket, 0 = no entry
    websockets,           \* the websockets accepted so far: task id and state of each
    task_statuses,        \* websocket_manager.task_statuses: status and message history
    connection_metadata,  \* websocket_manager.connection_metadata
    delivered,            \* per task id, the indices of published sent on a socket
    recipients            \* per task id, the socket each delivery went to

config == <<apiKey, max_iterations, client_files>>

renderer == <<html_renderer, open_handles>>

pageLocals == <<current_html, refinement_iterations, quality_scores, screenshot>>

limiter == <<since_last_call, rate_limit>>

channel == <<published, active_connections, websockets, task_statuses,
            connection_metadata, delivered, recipients>>

vars == <<config, uploads, conversion_results, refinement_engine, progress_callback,
          active_tasks, renderer, pc, pages_data, temp_files, page_idx, converted_pages,
          pageLocals, result, calls, limiter, clock, channel>>

NoResult == [status |-> "none"]

NoHtml == [kind |-> "none"]

\* a renderer field that is None
NoHandle == [task |-> 0, page |-> 0]

\* HTMLRenderer.__init__: playwright, browser and context are None
NoRenderer == [playwright |-> NoHandle, browser |-> NoHandle, context |-> NoHandle]

\* not inside _rate_limit
NotLimited == [at |-> "out", sleep_time |-> 0]

\* task_statuses has no entry for the task
NoTaskStatus == [status |-> "none", messages |-> <<>>]

\* connection_metadata has no entry for the task
NoMetadata == [connected |-> FALSE, messages_sent |-> 0]

(* ------------------------------ helpers ------------------------------- *)

\* dict deletion
Remove(f, k) == [x \in (DOMAIN f) \ {k} |-> f[x]]

\* dict insertion / overwrite
Put(f, k, v) == [x \in (DOMAIN f) \cup {k} |-> IF x = k THEN v ELSE f[x]]

Max(S) == CHOOSE x \in S : \A y \in S : y <= x

Range(s) == {s[i] : i \in DOMAIN s}

\* the state of the program at startup, whatever the client is going to upload
Startup ==
    /\ uploads = 0
    /\ conversion_results = <<>>
    /\ refinement_engine = FALSE
    /\ progress_callback = 0
    /\ active_tasks = <<>>
    /\ html_renderer = NoRenderer
    /\ open_handles = {}
    /\ pc = [t \in Tasks |-> "idle"]
    /\ pages_data = [t \in Tasks |-> <<>>]
    /\ temp_files = [t \in Tasks |-> 0]
    /\ page_idx = [t \in Tasks |-> 0]
    /\ converted_pages = [t \in Tasks |-> <<>>]
    /\ current_html = [t \in Tasks |-> NoHtml]
    /\ refinement_iterations = [t \in Tasks |-> 0]
    /\ quality_scores = [t \in Tasks |-> <<>>]
    /\ screenshot = [t \in Tasks |-> FALSE]
    /\ result = [t \in Tasks |-> NoResult]
    /\ calls = [t \in Tasks |-> <<>>]
    /\ since_last_call = RateLimitTicks
    /\ rate_limit = [t \in Tasks |-> NotLimited]
    /\ clock = 0
    /\ published = [t \in Tasks |-> <<>>]
    /\ active_connections = [t \in Tasks |-> 0]
    /\ websockets = <<>>
    /\ task_statuses = [t \in Tasks |-> NoTaskStatus]
    /\ connection_metadata = [t \in Tasks |-> NoMetadata]
    /\ delivered = [t \in Tasks |-> <<>>]
    /\ recipients = [t \in Tasks |-> <<>>]

Init ==
    /\ apiKey \in BOOLEAN
    /\ max_iterations \in 0..MaxIter
    /\ client_files \in [1..MaxUploads -> Documents]
    /\ Startup

\* POST /api/convert: a fresh task id, the registry entry, the background task
convert_pdf(t) ==
    /\ uploads < Len(client_files)
    /\ t = uploads + 1
    /\ pc[t] = "idle"
    /\ uploads' = t
    /\ conversion_results' = Put(conversion_results, t,
                                 [status |-> "uploaded", result |-> NoResult,
                                  created_at |-> clock])
    /\ pc' = [pc EXCEPT ![t] = "queued"]
    /\ UNCHANGED <<config, refinement_engine, progress_callback, active_tasks, renderer,
                   pages_data, temp_files, page_idx, converted_pages, pageLocals, result,
                   calls, limiter, clock, channel>>

(* ----------------------------- markup --------------------------------- *)

\* what generate_initial_html returns for a page: the first candidate
InitialHtml(page_number) == [kind |-> "initial", page_number |-> page_number, rev |-> 0]

\* what refine_html returns in iteration k of a page
RefinedHtml(page_number, k) == [kind |-> "refined", page_number |-> page_number, rev |-> k]

\* _generate_fallback_html: placeholder with the page number and the geometry
_generate_fallback_html(page_data) ==
    [kind |-> "fallback", page_number |-> page_data.page_number, rev |-> 0,
     geom |-> page_data.geom]

\* the fallback_page dict of convert_pdf_to_html's page handler
FallbackPage(page_data, e) ==
    [page_number |-> page_data.page_number,
     html_content |-> _generate_fallback_html(page_data),
     refinement_iterations |-> 0,
     final_quality_score |-> FallbackScore,
     error |-> e]

\* error_msg = "Error processing page N: <e>"
PageError(page_data, e) == [page_number |-> page_data.page_number, error |-> e]

\* error_msg = "Fatal error in PDF conversion: <e>"
FatalError(e) == [page_number |-> 0, error |-> e]

(* ----------------------------- scoring -------------------------------- *)

\* analyze_visual_similarity: the dict it returns (it never raises)
analyze_visual_similarity(reply) ==
    CASE reply.kind = "api_error" -> [overall_score |-> AnalysisFailedScore]
      [] reply.kind = "bad_json" -> [overall_score |-> JsonFallbackScore]
      [] reply.kind = "json" -> [overall_score |-> reply.score]
      [] reply.kind = "no_key" -> [other |-> 0]
      [] reply.kind = "not_a_dict" -> <<>>

\* the score _process_single_page appends: .get('overall_score', 7), or 7 when
\* .get raises because the parsed JSON is not a dict
RecordedScore(analysis) ==
    IF analysis = <<>>
    THEN EngineDefaultScore
    ELSE IF "overall_score" \in DOMAIN analysis
         THEN analysis.overall_score
         ELSE EngineDefaultScore

\* mutant: the score of the last iteration is reported
FinalQualityScore_LastScore(scores) ==
    IF scores = <<>> THEN EmptyHistoryScore ELSE scores[Len(scores)]

\* final_quality_score = max(quality_scores) if quality_scores else 7
FinalQualityScore(scores) ==
    IF scores = <<>> THEN EmptyHistoryScore ELSE Max(Range(scores))

(* ----------------------------- assembly ------------------------------- *)

RECURSIVE InsertByPageNumber(_, _)
\* insert p after the last element whose key is <= p's (a stable sort's step)
InsertByPageNumber(sorted, p) ==
    IF sorted = <<>>
    THEN <<p>>
    ELSE IF sorted[Len(sorted)].page_number <= p.page_number
         THEN Append(sorted, p)
         ELSE Append(InsertByPageNumber(SubSeq(sorted, 1, Len(sorted) - 1), p),
                     sorted[Len(sorted)])

\* mutant: the page results are taken in the order they were supplied
SortedByPageNumber_InputOrder(pages) == pages

RECURSIVE SortedByPageNumber(_)
\* sorted(pages, key=lambda p: p['page_number'])
SortedByPageNumber(pages) ==
    IF pages = <<>>
    THEN <<>>
    ELSE InsertByPageNumber(SortedByPageNumber(SubSeq(pages, 1, Len(pages) - 1)),
                            pages[Len(pages)])

\* one <div class="pdf-page" id="page-N"> with its "Page N of M" header
PageContainer(page, n) ==
    [id |-> page.page_number,
     header |-> [page |-> page.page_number, of |-> n],
     content |-> page.html_content]

\* _combine_pages_to_html: the envelope's page containers, in sorted order
_combine_pages_to_html(pages) ==
    LET sorted_pages == SortedByPageNumber(pages)
    IN  [kind |-> "document",
         containers |-> [i \in 1..Len(sorted_pages) |->
                            PageContainer(sorted_pages[i], Len(sorted_pages))]]

NoDocument == [kind |-> "none"]

(* ----------------------------- renderer ------------------------------- *)

\* the resources of one start_browser call
Acquired(owner, kinds) == {[kind |-> k, owner |-> owner] : k \in kinds}

\* start_browser got as far as the playwright driver (stage 1), the browser
\* (stage 2) or the context (stage 3, success): the fields it has assigned
start_browser(r, owner, stage) ==
    [playwright |-> IF stage >= 1 THEN owner ELSE r.playwright,
     browser |-> IF stage >= 2 THEN owner ELSE r.browser,
     context |-> IF stage >= 3 THEN owner ELSE r.context]

\* the resources start_browser has started when it got as far as stage
Started(owner, stage) ==
    Acquired(owner, {k \in {"playwright", "browser", "context"} :
                        \/ k = "playwright" /\ stage >= 1
                        \/ k = "browser" /\ stage >= 2
                        \/ k = "context" /\ stage >= 3})

\* stop_browser: closes what the fields refer to; the fields are None afterwards
stop_browser(open, r) ==
    open \ {[kind |-> k, owner |-> r[k]] : k \in {"playwright", "browser", "context"}}

\* render_and_screenshot's precondition: self.browser and self.context
BrowserStarted(r) == r.browser # NoHandle /\ r.context # NoHandle

(* ----------------------------- progress ------------------------------- *)

\* the update dict RefinementEngine._update_progress builds: task_id is the task
\* the engine is working on
Progress(task_id, message, page_number) ==
    [task_id |-> task_id, message |-> message, page_number |-> page_number]

\* _send_message(task_id, message_data): the message is handed over for task_id
_send_message(pub, task_id, m) ==
    [pub EXCEPT ![task_id] = Append(@, m)]

\* _update_progress: through the installed callback, if any; never raises.  The
\* callback is the closure of create_progress_callback(cb): it wraps the update
\* in a ProgressUpdate of its own task id, stamped with time.time()
_update_progress(pub, cb, update) ==
    IF cb = 0
    THEN pub
    ELSE _send_message(pub, cb,
                       [type |-> "progress", task_id |-> cb, message |-> update.message,
                        page_number |-> update.page_number, timestamp |-> clock,
                        data |-> update])

\* the confirmation WebSocketManager.connect sends
Connection(task_id) ==
    [type |-> "connection", task_id |-> task_id, message |-> "Connected successfully",
     page_number |-> 0]

\* notify_error -> send_error
send_error(pub, task_id, e) ==
    _send_message(pub, task_id,
                  [type |-> "error", task_id |-> task_id, message |-> e, page_number |-> 0,
                   timestamp |-> clock])

\* notify_task_completion -> send_task_completion
send_task_completion(pub, task_id, res) ==
    _send_message(pub, task_id,
                  [type |-> "task_completed", task_id |-> task_id, message |-> res.status,
                   page_number |-> 0, combined_html |-> res.combined_html,
                   total_pages |-> res.total_pages, errors |-> res.errors,
                   timestamp |-> clock])

\* mutant: every send goes through the whole history of the task again
NewMessages_HistoryResent(pub, u) ==
    IF Len(pub[u]) > Len(published[u]) THEN [i \in 1..Len(pub[u]) |-> i] ELSE <<>>

\* the messages of pub that published does not hold yet, as indices, for task id u
NewMessages(pub, u) == [i \in 1..(Len(pub[u]) - Len(published[u])) |-> Len(published[u]) + i]

RECURSIVE Retain(_, _)
\* the history of _send_message: once it is longer than the limit the oldest
\* message goes before the new one is appended
Retain(messages, new) ==
    IF new = <<>>
    THEN messages
    ELSE Retain(Append(IF Len(messages) > HistoryCap THEN Tail(messages) ELSE messages,
                       Head(new)),
                Tail(new))

\* send_task_completion and send_error set the status of an existing
\* task_statuses entry before they send
StatusAfter(status, m) ==
    CASE m.type = "task_completed" -> m.message
      [] m.type = "error" -> "error"
      [] OTHER -> status

\* what send_text on the socket stored for task id u is going to do; "none" when
\* active_connections has no entry
SocketState(u) ==
    IF active_connections[u] = 0 THEN "none" ELSE websockets[active_connections[u]].state

\* mutant: the history takes the message whether or not a socket is stored
History_WithoutObserver(pub, u) ==
    Retain(task_statuses[u].messages, NewMessages(pub, u))

\* the history of task id u after _send_message: it returns before the history
\* when no socket is stored for the task id
History(pub, u) ==
    IF SocketState(u) = "none"
    THEN task_statuses[u].messages
    ELSE Retain(task_statuses[u].messages, NewMessages(pub, u))

\* the senders and _send_message for everything an action hands over: without a
\* stored socket nothing happens beyond the status update; otherwise the message
\* enters the history, an open socket gets it, a socket whose send_text raises
\* does not, and a socket that raises WebSocketDisconnect is disconnected
Publish(pub) ==
    /\ published' = pub
    /\ task_statuses' =
         [u \in Tasks |->
            IF NewMessages(pub, u) = <<>> \/ task_statuses[u].status = "none"
            THEN task_statuses[u]
            ELSE [status |-> StatusAfter(task_statuses[u].status, pub[u][Len(pub[u])]),
                  messages |-> History(pub, u)]]
    /\ delivered' = [u \in Tasks |->
                        IF SocketState(u) = "open"
                        THEN delivered[u] \o NewMessages(pub, u)
                        ELSE delivered[u]]
    /\ recipients' = [u \in Tasks |->
                         IF SocketState(u) = "open"
                         THEN recipients[u] \o [i \in DOMAIN NewMessages(pub, u) |->
                                                   active_connections[u]]
                         ELSE recipients[u]]
    /\ connection_metadata' =
         [u \in Tasks |->
            IF NewMessages(pub, u) = <<>>
            THEN connection_metadata[u]
            ELSE CASE SocketState(u) = "open" /\ connection_metadata[u].connected ->
                        [connection_metadata[u] EXCEPT
                           !.messages_sent = @ + Len(NewMessages(pub, u))]
                   [] SocketState(u) = "closed" -> NoMetadata
                   [] OTHER -> connection_metadata[u]]
    /\ active_connections' = [u \in Tasks |->
                                 IF SocketState(u) = "closed" /\ NewMessages(pub, u) # <<>>
                                 THEN 0
                                 ELSE active_connections[u]]
    /\ UNCHANGED websockets

(* --------------------------- the coroutine ---------------------------- *)

\* process_pdf_conversion, up to the status update
process_pdf_conversion(t) ==
    /\ pc[t] = "queued"
    /\ IF t \in DOMAIN conversion_results
       THEN /\ conversion_results' = [conversion_results EXCEPT ![t].status = "processing"]
            /\ pc' = [pc EXCEPT ![t] = "setup"]
            /\ UNCHANGED channel
       ELSE \* KeyError: the handler finds no registry entry and notifies
            /\ Publish(send_error(published, t, "PDF conversion failed"))
            /\ pc' = [pc EXCEPT ![t] = "done"]
            /\ UNCHANGED conversion_results
    /\ UNCHANGED <<config, uploads, refinement_engine, progress_callback, active_tasks,
                   renderer, pages_data, temp_files, page_idx, converted_pages, pageLocals,
                   result, calls, limiter, clock>>

\* the new task_info of convert_pdf_to_html
NewTaskInfo ==
    [status |-> "started", total_pages |-> 0, completed_pages |-> 0, pages |-> <<>>,
     errors |-> <<>>, combined_html |-> NoDocument]

\* create_progress_callback, get_refinement_engine, engine.progress_callback = ...,
\* and convert_pdf_to_html up to the call of the rasterizer
get_refinement_engine(t) ==
    /\ pc[t] = "setup"
    /\ IF refinement_engine \/ apiKey
       THEN /\ refinement_engine' = TRUE
            /\ progress_callback' = t
            /\ active_tasks' = Put(active_tasks, t, NewTaskInfo)
            /\ Publish(_update_progress(published, t, Progress(t, "Extracting PDF pages", 0)))
            /\ pc' = [pc EXCEPT ![t] = "extract"]
            /\ UNCHANGED conversion_results
       ELSE \* GeminiClient raises ValueError: process_pdf_conversion's handler
            /\ conversion_results' =
                 IF t \in DOMAIN conversion_results
                 THEN [conversion_results EXCEPT ![t].status = "error"]
                 ELSE conversion_results
            /\ Publish(send_error(published, t, "PDF conversion failed"))
            /\ pc' = [pc EXCEPT ![t] = "done"]
            /\ UNCHANGED <<refinement_engine, progress_callback, active_tasks>>
    /\ UNCHANGED <<config, uploads, renderer, pages_data, temp_files, page_idx,
                   converted_pages, pageLocals, result, calls, limiter, clock>>

\* the rasterizer returns the pages of the uploaded document, one raster image
\* each, in ascending page order
ExtractPagesOk(t) ==
    /\ pc[t] = "extract"
    /\ LET n == Len(client_files[t])
       IN  /\ pages_data' = [pages_data EXCEPT
                               ![t] = [i \in 1..n |-> [page_number |-> i,
                                                       geom |-> client_files[t][i]]]]
           /\ temp_files' = [temp_files EXCEPT ![t] = n]
           /\ active_tasks' = [active_tasks EXCEPT ![t].total_pages = n]
           /\ Publish(_update_progress(published, progress_callback,
                                       Progress(t, "Processing pages", n)))
    /\ page_idx' = [page_idx EXCEPT ![t] = 1]
    /\ converted_pages' = [converted_pages EXCEPT ![t] = <<>>]
    /\ pc' = [pc EXCEPT ![t] = "gen"]
    /\ UNCHANGED <<config, uploads, conversion_results, refinement_engine,
                   progress_callback, renderer, pageLocals, result, calls, limiter, clock>>

\* the raster images extract_pages_as_images has saved when the call raises e:
\* it raises "Failed to process PDF" from inside its page loop
ImagesWrittenBefore(t, e) ==
    IF e = "Failed to process PDF" THEN 0..(Len(client_files[t]) - 1) ELSE {0}

\* mutant: the outer handler returns the error without setting the status
ExtractPagesFail_StatusNotSet(t) ==
    /\ pc[t] = "extract"
    /\ \E e \in ExtractionErrors : \E k \in ImagesWrittenBefore(t, e) :
         /\ temp_files' = [temp_files EXCEPT ![t] = k]
         /\ active_tasks' = [active_tasks EXCEPT ![t].errors = Append(@, FatalError(e))]
         /\ Publish(_update_progress(published, progress_callback,
                                     Progress(t, "Conversion failed", 0)))
         /\ result' = [result EXCEPT
                         ![t] = [status |-> "error", error |-> e,
                                 errors |-> Append(active_tasks[t].errors, FatalError(e))]]
    /\ pc' = [pc EXCEPT ![t] = "returned"]
    /\ UNCHANGED <<config, uploads, conversion_results, refinement_engine,
                   progress_callback, renderer, pages_data, page_idx, converted_pages,
                   pageLocals, calls, limiter, clock>>

\* the call of the rasterizer raises: the outer handler of convert_pdf_to_html,
\* which releases nothing
ExtractPagesFail(t) ==
    /\ pc[t] = "extract"
    /\ \E e \in ExtractionErrors : \E k \in ImagesWrittenBefore(t, e) :
         /\ temp_files' = [temp_files EXCEPT ![t] = k]
         /\ active_tasks' = [active_tasks EXCEPT ![t].status = "failed",
                                                 ![t].errors = Append(@, FatalError(e))]
         /\ Publish(_update_progress(published, progress_callback,
                                     Progress(t, "Conversion failed", 0)))
         /\ result' = [result EXCEPT
                         ![t] = [status |-> "error", error |-> e,
                                 errors |-> Append(active_tasks[t].errors, FatalError(e))]]
    /\ pc' = [pc EXCEPT ![t] = "returned"]
    /\ UNCHANGED <<config, uploads, conversion_results, refinement_engine,
                   progress_callback, renderer, pages_data, page_idx, converted_pages,
                   pageLocals, calls, limiter, clock>>

\* the for loop of convert_pdf_to_html moves to the next page, or past the loop
AdvancePage(t) ==
    IF page_idx[t] < Len(pages_data[t])
    THEN /\ page_idx' = [page_idx EXCEPT ![t] = @ + 1]
         /\ pc' = [pc EXCEPT ![t] = "gen"]
    ELSE /\ page_idx' = page_idx
         /\ pc' = [pc EXCEPT ![t] = "combine"]

\* mutant: the page handler also marks the task failed
PageFailed_MarksTaskFailed(t, e) ==
    LET page_data == pages_data[t][page_idx[t]]
    IN  /\ active_tasks' = [active_tasks EXCEPT
                              ![t].status = "failed",
                              ![t].errors = Append(@, PageError(page_data, e)),
                              ![t].completed_pages = @ + 1]
        /\ converted_pages' = [converted_pages EXCEPT
                                 ![t] = Append(@, FallbackPage(page_data, e))]
        /\ AdvancePage(t)

\* mutant: the page handler only logs the error, the error list is not extended
PageFailed_ErrorNotRecorded(t, e) ==
    LET page_data == pages_data[t][page_idx[t]]
    IN  /\ active_tasks' = [active_tasks EXCEPT ![t].completed_pages = @ + 1]
        /\ converted_pages' = [converted_pages EXCEPT
                                 ![t] = Append(@, FallbackPage(page_data, e))]
        /\ AdvancePage(t)

\* mutant: the fallback page is appended but not counted as completed
PageFailed_NotCounted(t, e) ==
    LET page_data == pages_data[t][page_idx[t]]
    IN  /\ active_tasks' = [active_tasks EXCEPT
                              ![t].errors = Append(@, PageError(page_data, e))]
        /\ converted_pages' = [converted_pages EXCEPT
                                 ![t] = Append(@, FallbackPage(page_data, e))]
        /\ AdvancePage(t)

\* mutant: after the fallback the same page is processed again
PageFailed_PageRepeated(t, e) ==
    LET page_data == pages_data[t][page_idx[t]]
    IN  /\ active_tasks' = [active_tasks EXCEPT
                              ![t].errors = Append(@, PageError(page_data, e)),
                              ![t].completed_pages = @ + 1]
        /\ converted_pages' = [converted_pages EXCEPT
                                 ![t] = Append(@, FallbackPage(page_data, e))]
        /\ page_idx' = page_idx
        /\ pc' = [pc EXCEPT ![t] = IF Len(converted_pages[t]) < MaxPages
                                   THEN "gen" ELSE "combine"]

\* the page handler of convert_pdf_to_html: error recorded, fallback page appended
PageFailed(t, e) ==
    LET page_data == pages_data[t][page_idx[t]]
    IN  /\ active_tasks' = [active_tasks EXCEPT
                              ![t].errors = Append(@, PageError(page_data, e)),
                              ![t].completed_pages = @ + 1]
        /\ converted_pages' = [converted_pages EXCEPT
                                 ![t] = Append(@, FallbackPage(page_data, e))]
        /\ AdvancePage(t)

Call(name, outcome) == [call |-> name, outcome |-> outcome]

\* mutant: a progress message whose send fails makes the page fail
BeginPage_SendFailureRaises(t) ==
    /\ pc[t] = "gen"
    /\ Publish(_update_progress(published, progress_callback,
                                Progress(t, "Generating HTML", page_idx[t])))
    /\ IF progress_callback # 0 /\ SocketState(progress_callback) \in {"failing", "closed"}
       THEN PageFailed(t, "Progress delivery failed")
       ELSE /\ pc' = [pc EXCEPT ![t] = "generate"]
            /\ UNCHANGED <<active_tasks, page_idx, converted_pages>>
    /\ UNCHANGED <<config, uploads, conversion_results, refinement_engine,
                   progress_callback, renderer, pages_data, temp_files, pageLocals, result,
                   calls, limiter, clock>>

\* _process_single_page begins: the progress message, then generate_initial_html
\* is entered
BeginPage(t) ==
    /\ pc[t] = "gen"
    /\ Publish(_update_progress(published, progress_callback,
                                Progress(t, "Generating HTML", page_idx[t])))
    /\ pc' = [pc EXCEPT ![t] = "generate"]
    /\ UNCHANGED <<config, uploads, conversion_results, refinement_engine,
                   progress_callback, active_tasks, renderer, pages_data, temp_files,
                   page_idx, converted_pages, pageLocals, result, calls, limiter, clock>>

(* --------------------------- rate limiter ----------------------------- *)

\* positions of the coroutine at which a GeminiClient method has been entered
GeneratorPcs == {"generate", "refine", "score"}

\* self.last_call_time = time.time(): the generator call follows
RateLimitPassed(t) ==
    /\ since_last_call' = 0
    /\ rate_limit' = [rate_limit EXCEPT ![t] = [at |-> "passed", sleep_time |-> 0]]

\* GeminiClient._rate_limit up to its await: the elapsed time is read; either the
\* coroutine goes to sleep for the rest of the interval or it passes at once
_rate_limit(t) ==
    /\ pc[t] \in GeneratorPcs
    /\ rate_limit[t].at = "out"
    /\ IF since_last_call < RateLimitTicks
       THEN /\ rate_limit' = [rate_limit EXCEPT
                                ![t] = [at |-> "sleeping",
                                        sleep_time |-> RateLimitTicks - since_last_call]]
            /\ UNCHANGED since_last_call
       ELSE RateLimitPassed(t)
    /\ UNCHANGED <<config, uploads, conversion_results, refinement_engine,
                   progress_callback, active_tasks, renderer, pc, pages_data, temp_files,
                   page_idx, converted_pages, pageLocals, result, calls, clock, channel>>

\* asyncio.sleep(sleep_time) is over: _rate_limit goes on without looking at the
\* time again
RateLimitWake(t) ==
    /\ rate_limit[t].at = "sleeping"
    /\ rate_limit[t].sleep_time = 0
    /\ RateLimitPassed(t)
    /\ UNCHANGED <<config, uploads, conversion_results, refinement_engine,
                   progress_callback, active_tasks, renderer, pc, pages_data, temp_files,
                   page_idx, converted_pages, pageLocals, result, calls, clock, channel>>

\* one tick of time passes, for the limiter and for the sleeping coroutines
Tick ==
    /\ \/ since_last_call < RateLimitTicks
       \/ \E t \in Tasks : rate_limit[t].at = "sleeping" /\ rate_limit[t].sleep_time > 0
    /\ since_last_call' = IF since_last_call < RateLimitTicks
                          THEN since_last_call + 1 ELSE since_last_call
    /\ rate_limit' = [t \in Tasks |->
                         IF rate_limit[t].at = "sleeping" /\ rate_limit[t].sleep_time > 0
                         THEN [rate_limit[t] EXCEPT !.sleep_time = @ - 1]
                         ELSE rate_limit[t]]
    /\ UNCHANGED <<config, uploads, conversion_results, refinement_engine,
                   progress_callback, active_tasks, renderer, pc, pages_data, temp_files,
                   page_idx, converted_pages, pageLocals, result, calls, clock, channel>>

\* the generator call of the method entered is made: _rate_limit is left
GeneratorCalled(t) ==
    /\ rate_limit[t].at = "passed"
    /\ rate_limit' = [rate_limit EXCEPT ![t] = NotLimited]
    /\ UNCHANGED since_last_call

(* ------------------------- _process_single_page ----------------------- *)

\* generate_initial_html returned: the locals of _process_single_page
GenerateOk(t) ==
    /\ calls' = [calls EXCEPT ![t] = <<Call("generate", "ok")>>]
    /\ current_html' = [current_html EXCEPT
                          ![t] = InitialHtml(pages_data[t][page_idx[t]].page_number)]
    /\ refinement_iterations' = [refinement_iterations EXCEPT ![t] = 0]
    /\ quality_scores' = [quality_scores EXCEPT ![t] = <<>>]
    /\ pc' = [pc EXCEPT ![t] = "start_browser"]
    /\ UNCHANGED <<active_tasks, converted_pages, page_idx>>

\* mutant: a failed generation is tried a second time before the page fails
GenerateRaised_RetryOnce(t) ==
    /\ calls' = [calls EXCEPT ![t] = <<Call("generate", "raised"), Call("generate", "raised")>>]
    /\ PageFailed(t, "Failed to generate HTML")
    /\ UNCHANGED <<current_html, refinement_iterations, quality_scores>>

\* generate_initial_html raised: not retried, the page handler takes over
GenerateRaised(t) ==
    /\ calls' = [calls EXCEPT ![t] = <<Call("generate", "raised")>>]
    /\ PageFailed(t, "Failed to generate HTML")
    /\ UNCHANGED <<current_html, refinement_iterations, quality_scores>>

\* generate_initial_html after its _rate_limit
GenerateInitial(t) ==
    /\ pc[t] = "generate"
    /\ GeneratorCalled(t)
    /\ \/ GenerateOk(t)
       \/ GenerateRaised(t)
    /\ UNCHANGED <<config, uploads, conversion_results, refinement_engine,
                   progress_callback, renderer, pages_data, temp_files, screenshot, result,
                   clock, channel>>

\* the session of the page of task t that is being processed
Session(t) == [task |-> t, page |-> page_idx[t]]

\* start_browser returned
StartBrowserOk(t) ==
    /\ calls' = [calls EXCEPT ![t] = Append(@, Call("start_browser", "ok"))]
    /\ html_renderer' = start_browser(html_renderer, Session(t), 3)
    /\ open_handles' = open_handles \cup Started(Session(t), 3)
    /\ pc' = [pc EXCEPT ![t] = "loop"]
    /\ UNCHANGED <<active_tasks, converted_pages, page_idx, result>>

\* mutant: a failed browser start reaches the outer handler and ends the run
StartBrowserRaised_Fatal(t) ==
    /\ calls' = [calls EXCEPT ![t] = Append(@, Call("start_browser", "raised"))]
    /\ active_tasks' = [active_tasks EXCEPT
                          ![t].status = "failed",
                          ![t].errors = Append(@, FatalError("Browser startup failed"))]
    /\ result' = [result EXCEPT
                    ![t] = [status |-> "error", error |-> "Browser startup failed",
                            errors |-> Append(active_tasks[t].errors,
                                              FatalError("Browser startup failed"))]]
    /\ pc' = [pc EXCEPT ![t] = "returned"]
    /\ UNCHANGED <<renderer, converted_pages, page_idx>>

\* start_browser raised "Browser startup failed" after stage of its three steps
\* (driver, browser, context) had succeeded: what it started stays started, and
\* the page handler takes over
StartBrowserRaised(t) ==
    /\ calls' = [calls EXCEPT ![t] = Append(@, Call("start_browser", "raised"))]
    /\ \E stage \in 0..2 :
         /\ html_renderer' = start_browser(html_renderer, Session(t), stage)
         /\ open_handles' = open_handles \cup Started(Session(t), stage)
    /\ PageFailed(t, "Browser startup failed")
    /\ UNCHANGED result

\* html_renderer.start_browser, called before the try block
StartBrowser(t) ==
    /\ pc[t] = "start_browser"
    /\ \/ StartBrowserOk(t)
       \/ StartBrowserRaised(t)
    /\ UNCHANGED <<config, uploads, conversion_results, refinement_engine,
                   progress_callback, pages_data, temp_files, pageLocals, limiter, clock,
                   channel>>

\* mutant: one pass too many
LoopContinues_OffByOne(iterations) == iterations <= max_iterations

\* for iteration in range(self.max_iterations): another pass is due
LoopContinues(iterations) == iterations < max_iterations

\* finally: await self.html_renderer.stop_browser()
StopBrowser ==
    /\ open_handles' = stop_browser(open_handles, html_renderer)
    /\ html_renderer' = NoRenderer

\* one more pass of "for iteration in range(self.max_iterations)": the counter,
\* the progress message and render_and_screenshot
RenderAndScreenshot(t) ==
    /\ pc[t] = "loop"
    /\ LoopContinues(refinement_iterations[t])
    /\ refinement_iterations' = [refinement_iterations EXCEPT ![t] = @ + 1]
    /\ Publish(_update_progress(published, progress_callback,
                                Progress(t, "Refining page", page_idx[t])))
    /\ \/ /\ BrowserStarted(html_renderer)
          /\ calls' = [calls EXCEPT ![t] = Append(@, Call("render", "ok"))]
          /\ screenshot' = [screenshot EXCEPT ![t] = TRUE]
          /\ pc' = [pc EXCEPT ![t] = "refine"]
          /\ UNCHANGED <<active_tasks, converted_pages, page_idx, renderer>>
       \/ \* the render raises; finally: stop_browser; the page handler takes over
          /\ calls' = [calls EXCEPT ![t] = Append(@, Call("render", "raised"))]
          /\ StopBrowser
          /\ PageFailed(t, IF BrowserStarted(html_renderer)
                           THEN "Failed to render HTML" ELSE "Browser not started")
          /\ UNCHANGED screenshot
    /\ UNCHANGED <<config, uploads, conversion_results, refinement_engine,
                   progress_callback, pages_data, temp_files, current_html, quality_scores,
                   result, limiter, clock>>

\* refine_html returned a new candidate
RefineOk(t) ==
    /\ calls' = [calls EXCEPT ![t] = Append(@, Call("refine", "ok"))]
    /\ pc' = [pc EXCEPT ![t] = "score"]
    /\ UNCHANGED <<active_tasks, converted_pages, page_idx, renderer>>

\* mutant: a failed refinement is not caught inside the loop and fails the page
RefineRaised_PageFailure(t) ==
    /\ calls' = [calls EXCEPT ![t] = Append(@, Call("refine", "raised"))]
    /\ StopBrowser
    /\ PageFailed(t, "Failed to refine HTML")

\* mutant: after a failed refinement the loop goes on with the next pass
RefineRaised_LoopGoesOn(t) ==
    /\ calls' = [calls EXCEPT ![t] = Append(@, Call("refine", "raised"))]
    /\ pc' = [pc EXCEPT ![t] = "loop"]
    /\ UNCHANGED <<active_tasks, converted_pages, page_idx, renderer>>

\* refine_html raised: logged, and the loop is left with break
RefineRaised(t) ==
    /\ calls' = [calls EXCEPT ![t] = Append(@, Call("refine", "raised"))]
    /\ pc' = [pc EXCEPT ![t] = "finish"]
    /\ UNCHANGED <<active_tasks, converted_pages, page_idx, renderer>>

\* gemini_client.refine_html inside the inner try, after its _rate_limit
RefineHtml(t) ==
    /\ pc[t] = "refine"
    /\ GeneratorCalled(t)
    /\ \/ RefineOk(t)
       \/ RefineRaised(t)
    /\ UNCHANGED <<config, uploads, conversion_results, refinement_engine,
                   progress_callback, pages_data, temp_files, pageLocals, result, clock,
                   channel>>

\* mutant: the refined markup is adopted only if its iteration scored at least
\* as high as every earlier one
AnalyzeSimilarity_BestKept(t) ==
    /\ pc[t] = "score"
    /\ GeneratorCalled(t)
    /\ \E reply \in ScoreReplies :
         /\ calls' = [calls EXCEPT ![t] = Append(@, Call("score", reply.kind))]
         /\ quality_scores' = [quality_scores EXCEPT
                                 ![t] = Append(@, RecordedScore(analyze_visual_similarity(reply)))]
         /\ current_html' = [current_html EXCEPT
                               ![t] = IF \A j \in DOMAIN quality_scores[t] :
                                            quality_scores[t][j] <=
                                               RecordedScore(analyze_visual_similarity(reply))
                                      THEN RefinedHtml(pages_data[t][page_idx[t]].page_number,
                                                       refinement_iterations[t])
                                      ELSE @]
    /\ screenshot' = [screenshot EXCEPT ![t] = FALSE]
    /\ pc' = [pc EXCEPT ![t] = "loop"]
    /\ UNCHANGED <<config, uploads, conversion_results, refinement_engine,
                   progress_callback, active_tasks, renderer, pages_data, temp_files,
                   page_idx, converted_pages, refinement_iterations, result, clock, channel>>

\* analyze_visual_similarity after its _rate_limit, the score appended, the
\* refined markup adopted, the screenshot removed
AnalyzeSimilarity(t) ==
    /\ pc[t] = "score"
    /\ GeneratorCalled(t)
    /\ \E reply \in ScoreReplies :
         /\ calls' = [calls EXCEPT ![t] = Append(@, Call("score", reply.kind))]
         /\ quality_scores' = [quality_scores EXCEPT
                                 ![t] = Append(@, RecordedScore(analyze_visual_similarity(reply)))]
    /\ current_html' = [current_html EXCEPT
                          ![t] = RefinedHtml(pages_data[t][page_idx[t]].page_number,
                                             refinement_iterations[t])]
    /\ screenshot' = [screenshot EXCEPT ![t] = FALSE]
    /\ pc' = [pc EXCEPT ![t] = "loop"]
    /\ UNCHANGED <<config, uploads, conversion_results, refinement_engine,
                   progress_callback, active_tasks, renderer, pages_data, temp_files,
                   page_idx, converted_pages, refinement_iterations, result, clock, channel>>

\* the result dict of _process_single_page
PageResult(page_data, html, iterations, scores) ==
    [page_number |-> page_data.page_number,
     html_content |-> html,
     refinement_iterations |-> iterations,
     final_quality_score |-> FinalQualityScore(scores),
     quality_progression |-> scores,
     original_dimensions |-> page_data.geom]

\* the loop is over (exhausted or left by break): finally stop_browser, the page
\* result, and back in convert_pdf_to_html the append, the count and the message
FinishPage(t) ==
    /\ \/ pc[t] = "finish"
       \/ pc[t] = "loop" /\ ~LoopContinues(refinement_iterations[t])
    /\ StopBrowser
    /\ LET page_data == pages_data[t][page_idx[t]]
       IN  /\ converted_pages' = [converted_pages EXCEPT
                                    ![t] = Append(@, PageResult(page_data, current_html[t],
                                                                refinement_iterations[t],
                                                                quality_scores[t]))]
           /\ Publish(_update_progress(published, progress_callback,
                                       Progress(t, "Completed page", page_data.page_number)))
    /\ active_tasks' = [active_tasks EXCEPT ![t].completed_pages = @ + 1]
    /\ AdvancePage(t)
    /\ UNCHANGED <<config, uploads, conversion_results, refinement_engine,
                   progress_callback, pages_data, temp_files, pageLocals, result, calls,
                   limiter, clock>>

\* convert_pdf_to_html after the loop: combine, final task_info, message, cleanup,
\* the success result
CombinePages(t) ==
    /\ pc[t] = "combine"
    /\ LET combined_html == _combine_pages_to_html(converted_pages[t])
       IN  /\ active_tasks' = [active_tasks EXCEPT ![t].status = "completed",
                                                   ![t].pages = converted_pages[t],
                                                   ![t].combined_html = combined_html]
           /\ result' = [result EXCEPT
                           ![t] = [status |-> "success",
                                   total_pages |-> Len(pages_data[t]),
                                   completed_pages |-> Len(converted_pages[t]),
                                   pages |-> converted_pages[t],
                                   combined_html |-> combined_html,
                                   errors |-> active_tasks[t].errors]]
    /\ Publish(_update_progress(published, progress_callback,
                                Progress(t, "Conversion completed", 0)))
    \* _cleanup_temp_files: the raster images of pages_data are removed, and
    \* cleanup_all_screenshots empties the shared directory
    /\ temp_files' = [temp_files EXCEPT ![t] = 0]
    /\ screenshot' = [u \in Tasks |-> FALSE]
    /\ pc' = [pc EXCEPT ![t] = "returned"]
    /\ UNCHANGED <<config, uploads, conversion_results, refinement_engine,
                   progress_callback, renderer, pages_data, page_idx, converted_pages,
                   current_html, refinement_iterations, quality_scores, calls, limiter,
                   clock>>

\* mutant: the outcome is always reported with a completion message
TerminalNotification_AlwaysCompletion(pub, t, res) ==
    _send_message(pub, t, [type |-> "task_completed", task_id |-> t, message |-> res.status,
                           page_number |-> 0, timestamp |-> clock])

\* process_pdf_conversion: notify_task_completion on success, notify_error otherwise
TerminalNotification(pub, t, res) ==
    IF res.status = "success"
    THEN send_task_completion(pub, t, res)
    ELSE send_error(pub, t, res.error)

\* mutant: the terminal notification is sent and the registry is not updated
FinishConversion_RegistryNotUpdated(t) ==
    /\ pc[t] = "returned"
    /\ Publish(TerminalNotification(published, t, result[t]))
    /\ pc' = [pc EXCEPT ![t] = "done"]
    /\ UNCHANGED <<config, uploads, conversion_results, refinement_engine,
                   progress_callback, active_tasks, renderer, pages_data, temp_files,
                   page_idx, converted_pages, pageLocals, result, calls, limiter, clock>>

\* process_pdf_conversion after the engine returned: the registry update and the
\* terminal notification
FinishConversion(t) ==
    /\ pc[t] = "returned"
    /\ IF t \in DOMAIN conversion_results
       THEN /\ conversion_results' = [conversion_results EXCEPT
                                        ![t].status = result[t].status,
                                        ![t].result = result[t]]
            /\ Publish(TerminalNotification(published, t, result[t]))
       ELSE \* KeyError on the update: the handler finds no entry and notifies
            /\ Publish(send_error(published, t, "PDF conversion failed"))
            /\ UNCHANGED conversion_results
    /\ pc' = [pc EXCEPT ![t] = "done"]
    /\ UNCHANGED <<config, uploads, refinement_engine, progress_callback, active_tasks,
                   renderer, pages_data, temp_files, page_idx, converted_pages, pageLocals,
                   result, calls, limiter, clock>>

\* mutant: a result is reported as available whenever one is stored
get_task_status_AnyResult(t) ==
    [status_code |-> 200,
     status |-> conversion_results[t].status,
     websocket_connected |-> active_connections[t] # 0,
     websocket_status |-> task_statuses[t],
     result_available |-> conversion_results[t].result # NoResult]

\* GET /api/status/{task_id} for a registered task: the response
get_task_status(t) ==
    [status_code |-> 200,
     status |-> conversion_results[t].status,
     websocket_connected |-> active_connections[t] # 0,
     websocket_status |-> task_statuses[t],
     result_available |-> /\ conversion_results[t].status = "success"
                          /\ conversion_results[t].result # NoResult]

\* mutant: the status of the task is not looked at
download_html_StatusNotChecked(t) ==
    IF t \notin DOMAIN conversion_results
    THEN [status_code |-> 404]
    ELSE IF "combined_html" \notin DOMAIN conversion_results[t].result
         THEN [status_code |-> 404]
         ELSE [status_code |-> 200,
               body |-> conversion_results[t].result.combined_html]

\* GET /api/download/{task_id}: the response; no state is changed
download_html(t) ==
    IF t \notin DOMAIN conversion_results
    THEN [status_code |-> 404]
    ELSE IF conversion_results[t].status # "success"
         THEN [status_code |-> 400]
         ELSE IF "combined_html" \notin DOMAIN conversion_results[t].result
              THEN [status_code |-> 404]
              ELSE [status_code |-> 200,
                    body |-> conversion_results[t].result.combined_html]

\* GET /api/tasks: the task ids listed, those younger than the window; the
\* registry is only read
list_tasks ==
    {t \in DOMAIN conversion_results :
        clock - conversion_results[t].created_at < RetentionWindow}

\* DELETE /api/task/{task_id}: websocket_manager.cleanup_task (disconnect, and
\* the task_statuses entry goes), then the registry entry goes
cleanup_task(t) ==
    /\ t \in DOMAIN conversion_results
    /\ conversion_results' = Remove(conversion_results, t)
    /\ active_connections' = [active_connections EXCEPT ![t] = 0]
    /\ connection_metadata' = [connection_metadata EXCEPT ![t] = NoMetadata]
    /\ task_statuses' = [task_statuses EXCEPT ![t] = NoTaskStatus]
    /\ UNCHANGED <<config, uploads, refinement_engine, progress_callback, active_tasks,
                   renderer, pc, pages_data, temp_files, page_idx, converted_pages,
                   pageLocals, result, calls, limiter, clock, published, websockets,
                   delivered, recipients>>

\* one step of task t's background coroutine
TaskStep(t) ==
    \/ process_pdf_conversion(t)
    \/ get_refinement_engine(t)
    \/ ExtractPagesOk(t)
    \/ ExtractPagesFail(t)
    \/ BeginPage(t)
    \/ _rate_limit(t)
    \/ RateLimitWake(t)
    \/ GenerateInitial(t)
    \/ StartBrowser(t)
    \/ RenderAndScreenshot(t)
    \/ RefineHtml(t)
    \/ AnalyzeSimilarity(t)
    \/ FinishPage(t)
    \/ CombinePages(t)
    \/ FinishConversion(t)

Next ==
    \/ \E t \in Tasks :
          \/ convert_pdf(t)
          \/ TaskStep(t)
          \/ cleanup_task(t)
    \/ Tick

Spec == Init /\ [][Next]_vars

\* every collaborator call eventually returns or raises, the event loop keeps
\* running the background task, and time passes
FairSpec == Spec /\ WF_vars(Tick) /\ \A t \in Tasks : WF_vars(TaskStep(t))

(* ----------------------- concurrent conversions ----------------------- *)

\* two uploads of one-page documents, the key configured, one refinement pass
ConcInit ==
    /\ apiKey = TRUE
    /\ max_iterations = 1
    /\ client_files = [u \in 1..ConcUploads |-> <<1>>]
    /\ Startup

\* the conversions as long as the rasterizer delivers and no task is cleaned up
ConcNext ==
    \/ \E t \in Tasks :
          \/ convert_pdf(t)
          \/ process_pdf_conversion(t)
          \/ get_refinement_engine(t)
          \/ ExtractPagesOk(t)
          \/ BeginPage(t)
          \/ _rate_limit(t)
          \/ RateLimitWake(t)
          \/ GenerateInitial(t)
          \/ StartBrowser(t)
          \/ RenderAndScreenshot(t)
          \/ RefineHtml(t)
          \/ AnalyzeSimilarity(t)
          \/ FinishPage(t)
          \/ CombinePages(t)
          \/ FinishConversion(t)
    \/ Tick

ConcSpec == ConcInit /\ [][ConcNext]_vars

(* ----------------------------- observers ------------------------------ *)

\* mutant: a socket already stored for the task id is kept
StoredSocket_EarlierKept(t) ==
    IF active_connections[t] # 0 THEN active_connections[t] ELSE Len(websockets) + 1

\* self.active_connections[task_id] = websocket: the socket just accepted
StoredSocket(t) == Len(websockets) + 1

\* WebSocketManager.connect: the socket is accepted and stored under the task id,
\* replacing any earlier one, with fresh metadata; task_statuses gets an entry
\* unless it has one; the confirmation is sent on the new socket
connect(t) ==
    /\ t \in 1..Len(client_files)
    /\ Len(websockets) < MaxConnects
    /\ websockets' = Append(websockets, [task_id |-> t, state |-> "open"])
    /\ active_connections' = [active_connections EXCEPT ![t] = StoredSocket(t)]
    /\ connection_metadata' = [connection_metadata EXCEPT
                                 ![t] = [connected |-> TRUE, messages_sent |-> 1]]
    /\ task_statuses' = [task_statuses EXCEPT
                           ![t] = [status |-> IF @.status = "none" THEN "connected"
                                              ELSE @.status,
                                   messages |-> Retain(@.messages,
                                                       <<Len(published[t]) + 1>>)]]
    /\ published' = _send_message(published, t, Connection(t))
    /\ delivered' = [delivered EXCEPT ![t] = Append(@, Len(published[t]) + 1)]
    /\ recipients' = [recipients EXCEPT ![t] = Append(@, StoredSocket(t))]
    /\ UNCHANGED <<config, uploads, conversion_results, refinement_engine,
                   progress_callback, active_tasks, renderer, pc, pages_data, temp_files,
                   page_idx, converted_pages, pageLocals, result, calls, limiter, clock>>

\* websocket_endpoint of socket s after its client went away: receive_text
\* raises, and the finally calls websocket_manager.disconnect(task_id), which
\* removes whatever socket is stored for the task id
disconnect(s) ==
    /\ s \in DOMAIN websockets
    /\ websockets[s].state = "closed"
    /\ websockets' = [websockets EXCEPT ![s].state = "ended"]
    /\ active_connections' = [active_connections EXCEPT ![websockets[s].task_id] = 0]
    /\ connection_metadata' = [connection_metadata EXCEPT
                                 ![websockets[s].task_id] = NoMetadata]
    /\ UNCHANGED <<config, uploads, conversion_results, refinement_engine,
                   progress_callback, active_tasks, renderer, pc, pages_data, temp_files,
                   page_idx, converted_pages, pageLocals, result, calls, limiter, clock,
                   published, task_statuses, delivered, recipients>>

\* what the next send_text on socket s is going to do changes: it went through
\* ("open") and now raises some exception ("failing"), or the client has gone
\* away and it raises WebSocketDisconnect ("closed")
SocketChanges(s) ==
    /\ s \in DOMAIN websockets
    /\ websockets[s].state \in {"open", "failing"}
    /\ \E st \in (IF websockets[s].state = "open" THEN {"failing", "closed"}
                                                  ELSE {"closed"}) :
          websockets' = [websockets EXCEPT ![s].state = st]
    /\ UNCHANGED <<config, uploads, conversion_results, refinement_engine,
                   progress_callback, active_tasks, renderer, pc, pages_data, temp_files,
                   page_idx, converted_pages, pageLocals, result, calls, limiter, clock,
                   published, active_connections, task_statuses, connection_metadata,
                   delivered, recipients>>

\* time.time() moves on
ClockTick ==
    /\ clock < MaxClock
    /\ clock' = clock + 1
    /\ UNCHANGED <<config, uploads, conversion_results, refinement_engine,
                   progress_callback, active_tasks, renderer, pc, pages_data, temp_files,
                   page_idx, converted_pages, pageLocals, result, calls, limiter, channel>>

\* one upload of a one-page document, converted without refinement passes and
\* watched over websockets
ObsInit ==
    /\ apiKey = TRUE
    /\ max_iterations = 0
    /\ client_files = <<<<1>>>>
    /\ Startup

\* the endpoints, the steps of a conversion that makes no refinement pass, the
\* observers and the wall clock
ObserverNext ==
    \/ \E t \in Tasks :
          \/ convert_pdf(t)
          \/ process_pdf_conversion(t)
          \/ get_refinement_engine(t)
          \/ ExtractPagesOk(t)
          \/ ExtractPagesFail(t)
          \/ BeginPage(t)
          \/ _rate_limit(t)
          \/ GenerateInitial(t)
          \/ StartBrowser(t)
          \/ FinishPage(t)
          \/ CombinePages(t)
          \/ FinishConversion(t)
          \/ cleanup_task(t)
          \/ connect(t)
    \/ \E s \in 1..MaxConnects :
          \/ disconnect(s)
          \/ SocketChanges(s)
    \/ ClockTick

ObserverSpec == ObsInit /\ [][ObserverNext]_vars

(* ====================================================================== *)
(* Properties                                                             *)
(* ====================================================================== *)

Last(s) == s[Len(s)]

\* positions of the coroutine inside the page loop of convert_pdf_to_html
PagePcs == {"gen", "generate", "start_browser", "loop", "refine", "score", "finish"}

\* the rasterizer has returned the pages of task t
Extracted(t) == pages_data[t] # <<>>

\* the status of the engine's task record, read with the coroutine's position:
\* the record only stores started / completed / failed
EngineStage(t) ==
    IF t \notin DOMAIN active_tasks
    THEN IF pc[t] = "idle" THEN "None" ELSE "Created"
    ELSE CASE active_tasks[t].status = "failed" -> "Failed"
           [] active_tasks[t].status = "completed" -> "Completed"
           [] OTHER -> IF pc[t] = "extract" THEN "Extracting"
                       ELSE IF pc[t] = "combine" THEN "Assembling"
                       ELSE "ProcessingPages"

\* the status the status endpoint reads; "processing" covers the three running stages
RegistryStage(t) ==
    IF t \notin DOMAIN conversion_results
    THEN "Absent"
    ELSE CASE conversion_results[t].status = "uploaded" -> "Created"
           [] conversion_results[t].status = "processing" -> "Running"
           [] conversion_results[t].status = "success" -> "Completed"
           [] conversion_results[t].status = "error" -> "Failed"

EngineOrder ==
    {<<"None", "Created">>, <<"Created", "Extracting">>, <<"Extracting", "Failed">>,
     <<"Extracting", "ProcessingPages">>, <<"ProcessingPages", "Assembling">>,
     <<"Assembling", "Completed">>}

RegistryOrder ==
    {<<"Created", "Running">>, <<"Running", "Completed">>, <<"Running", "Failed">>}

EngineMove(t) ==
    \/ EngineStage(t)' = EngineStage(t)
    \/ <<EngineStage(t), EngineStage(t)'>> \in EngineOrder

RegistryMove(t) ==
    \/ RegistryStage(t)' = RegistryStage(t)
    \/ /\ <<RegistryStage(t), RegistryStage(t)'>> \in RegistryOrder
       /\ RegistryStage(t)' = "Completed" => EngineStage(t)' = "Completed"
       /\ RegistryStage(t)' = "Failed" => EngineStage(t)' \in {"Failed", "Created"}
    \/ RegistryStage(t) = "Absent" /\ RegistryStage(t)' = "Created" /\ pc[t] = "idle"
    \/ RegistryStage(t)' = "Absent"

\* C1: every step leaves a task's status where it is or moves it one step forward
\* along Created -> Extracting -> {Failed | ProcessingPages -> Assembling ->
\* Completed}, in the engine's task record and in the registry record (whose
\* "processing" stands for the running stages, and which cleanup may remove);
\* no status is revisited and Completed and Failed are never left.
C1_StatusOrder == [][\A t \in Tasks : EngineMove(t) /\ RegistryMove(t)]_vars

C1_Witness ==
    \E t \in Tasks :
        /\ EngineStage(t) = "Completed"
        /\ RegistryStage(t) = "Completed"
        /\ Len(pages_data[t]) = 2

\* the run of task t is over and no record of it shows a running status
TaskTerminal(t) ==
    /\ pc[t] = "done"
    /\ t \in DOMAIN conversion_results => conversion_results[t].status \in {"success", "error"}
    /\ t \in DOMAIN active_tasks => active_tasks[t].status \in {"completed", "failed"}

\* C2: under fair scheduling of the background coroutine (every collaborator call
\* returns or raises), every submitted task eventually is terminal: its run is
\* over, the engine's record is completed or failed and the registry record,
\* unless cleaned up, is success or error.
C2_EventuallyTerminal == \A t \in Tasks : (pc[t] = "queued") ~> TaskTerminal(t)

C2_Witness ==
    \E t \in Tasks :
        /\ TaskTerminal(t)
        /\ t \in DOMAIN conversion_results
        /\ conversion_results[t].status = "success"
        /\ Len(converted_pages[t]) = 2
        /\ "error" \in DOMAIN converted_pages[t][1]
        /\ Last(calls[t]) = Call("refine", "raised")

C4_GenerationFailureFallsBack ==
    \A t \in Tasks :
        /\ calls[t] = <<Call("generate", "raised")>> =>
              LET r == Last(converted_pages[t])
                  n == Len(converted_pages[t])
                  page_data == pages_data[t][n]
              IN  /\ r.page_number = n
                  /\ r.html_content = [kind |-> "fallback", page_number |-> n, rev |-> 0,
                                       geom |-> page_data.geom]
                  /\ r.refinement_iterations = 0
                  /\ r.final_quality_score = 0
                  /\ active_tasks[t].errors # <<>>
                  /\ Last(active_tasks[t].errors)
                        = [page_number |-> n, error |-> "Failed to generate HTML"]
                  /\ active_tasks[t].status # "failed"
                  /\ n < Len(pages_data[t]) => pc[t] \in {"gen", "generate"} /\ page_idx[t] = n + 1
                  /\ n = Len(pages_data[t]) => pc[t] \in {"combine", "returned", "done"}
        /\ \A i \in 1..Len(converted_pages[t]) : converted_pages[t][i].page_number = i
        /\ pc[t] \in {"combine", "returned", "done"} /\ Extracted(t) =>
              Len(converted_pages[t]) = Len(pages_data[t])

C4_Witness ==
    \E t \in Tasks :
        /\ pc[t] = "done"
        /\ Len(converted_pages[t]) = 2
        /\ "error" \in DOMAIN converted_pages[t][1]
        /\ converted_pages[t][1].error = "Failed to generate HTML"
        /\ "error" \notin DOMAIN converted_pages[t][2]
        /\ converted_pages[t][2].refinement_iterations = 2

\* C5: the combined document of a completed task holds exactly total_pages page
\* containers, the i-th with anchor page-i, header "Page i of total_pages" and
\* the content of page i's result (successful or fallback), and combining the
\* page results in any other order gives the same document.
C5_CombinedDocumentInPageOrder ==
    \A t \in DOMAIN active_tasks :
        active_tasks[t].status = "completed" =>
            LET doc == active_tasks[t].combined_html
                n == active_tasks[t].total_pages
                pages == active_tasks[t].pages
            IN  /\ n = Len(pages_data[t])
                /\ Len(doc.containers) = n
                /\ \A i \in 1..n :
                      /\ doc.containers[i].id = i
                      /\ doc.containers[i].header = [page |-> i, of |-> n]
                      /\ \E j \in 1..Len(pages) :
                            /\ pages[j].page_number = i
                            /\ doc.containers[i].content = pages[j].html_content
                /\ \A f \in Permutations(1..Len(pages)) :
                      _combine_pages_to_html([i \in 1..Len(pages) |-> pages[f[i]]]) = doc

C5_Witness ==
    \E t \in DOMAIN active_tasks :
        /\ active_tasks[t].status = "completed"
        /\ Len(active_tasks[t].combined_html.containers) = 2
        /\ active_tasks[t].combined_html.containers[1].content.kind = "fallback"
        /\ active_tasks[t].combined_html.containers[2].content.kind = "refined"

\* C6: the iteration counter of the page being processed and the
\* refinement_iterations of every page result never exceed max_iterations.
C6_IterationsBounded ==
    \A t \in Tasks :
        /\ refinement_iterations[t] <= max_iterations
        /\ \A i \in 1..Len(converted_pages[t]) :
              converted_pages[t][i].refinement_iterations <= max_iterations

C6_Witness ==
    \E t \in Tasks :
        /\ pc[t] = "done"
        /\ max_iterations = 2
        /\ \E i \in 1..Len(converted_pages[t]) :
              converted_pages[t][i].refinement_iterations = max_iterations

\* the last collaborator call of the current (or last finished) page was a
\* refinement call that raised
RefineFailed(t) == calls[t] # <<>> /\ Last(calls[t]) = Call("refine", "raised")

\* the 1-based iteration in which that call was made
RefineCalls(t) == Cardinality({i \in DOMAIN calls[t] : calls[t][i].call = "refine"})

\* the markup that was current when iteration k of page n began
MarkupBefore(n, k) ==
    IF k = 1
    THEN [kind |-> "initial", page_number |-> n, rev |-> 0]
    ELSE [kind |-> "refined", page_number |-> n, rev |-> k - 1]

\* C7: when the refinement call of iteration k raises, the loop is left without
\* raising: the page's result carries refinement_iterations = k and the markup
\* that was current before the call, it is no fallback, the error list gets no
\* entry for the page, and the run ends completed.
C7_RefineFailureStopsLoop ==
    \A t \in Tasks :
        RefineFailed(t) =>
            LET k == RefineCalls(t)
            IN  /\ active_tasks[t].status # "failed"
                /\ pc[t] \in {"finish", "gen", "generate", "combine", "returned", "done"}
                /\ pc[t] = "finish" =>
                      LET n == pages_data[t][page_idx[t]].page_number
                      IN  /\ refinement_iterations[t] = k
                          /\ current_html[t] = MarkupBefore(n, k)
                          /\ \A i \in 1..Len(active_tasks[t].errors) :
                                active_tasks[t].errors[i].page_number # n
                /\ pc[t] # "finish" =>
                      LET r == Last(converted_pages[t])
                      IN  /\ "error" \notin DOMAIN r
                          /\ r.refinement_iterations = k
                          /\ r.html_content = MarkupBefore(r.page_number, k)
                          /\ \A i \in 1..Len(active_tasks[t].errors) :
                                active_tasks[t].errors[i].page_number # r.page_number
                /\ pc[t] \in {"returned", "done"} => active_tasks[t].status = "completed"

C7_Witness ==
    \E t \in Tasks :
        /\ RefineFailed(t)
        /\ RefineCalls(t) = 2
        /\ pc[t] = "done"
        /\ active_tasks[t].status = "completed"
        /\ Last(converted_pages[t]).page_number = 2
        /\ Last(converted_pages[t]).html_content.kind = "refined"

\* the messages of one type handed over for task t
Events(t, type) == {i \in DOMAIN published[t] : published[t][i].type = type}

\* C8: when extraction fails (the engine returns its error result), the engine's
\* record is failed and holds no combined document, the result carries none, no
\* page was processed, the registry record (unless cleaned up) ends error and
\* the download endpoint returns no document, and once the run is over exactly
\* one error event has been emitted for the task (none before).
C8_ExtractionFailure ==
    \A t \in Tasks :
        result[t].status = "error" =>
            /\ active_tasks[t].status = "failed"
            /\ active_tasks[t].combined_html.kind = "none"
            /\ "combined_html" \notin DOMAIN result[t]
            /\ pages_data[t] = <<>>
            /\ converted_pages[t] = <<>>
            /\ active_tasks[t].completed_pages = 0
            /\ calls[t] = <<>>
            /\ Events(t, "task_completed") = {}
            /\ Cardinality(Events(t, "error")) = IF pc[t] = "done" THEN 1 ELSE 0
            /\ download_html(t).status_code # 200
            /\ pc[t] = "done" /\ t \in DOMAIN conversion_results =>
                  conversion_results[t].status = "error"

C8_Witness ==
    \E t \in Tasks :
        /\ result[t].status = "error"
        /\ pc[t] = "done"
        /\ t \in DOMAIN conversion_results
        /\ conversion_results[t].status = "error"
        /\ Cardinality(Events(t, "error")) = 1

CallsOf(t, name) == {i \in DOMAIN calls[t] : calls[t][i].call = name}

\* C9: with max_iterations = 0 a page gets exactly one generation call and no
\* render, refine or scoring call; the iteration counter stays 0, no score is
\* recorded, and a page result carries 0 iterations, an empty quality history
\* and, unless it is a fallback, the initial markup.
C9_ZeroIterations ==
    \A t \in Tasks :
        max_iterations = 0 =>
            /\ refinement_iterations[t] = 0
            /\ quality_scores[t] = <<>>
            /\ ~screenshot[t]
            /\ CallsOf(t, "render") \cup CallsOf(t, "refine") \cup CallsOf(t, "score") = {}
            /\ pc[t] \in PagePcs \ {"gen", "generate"} \/ converted_pages[t] # <<>> =>
                  Cardinality(CallsOf(t, "generate")) = 1
            /\ \A i \in 1..Len(converted_pages[t]) :
                  LET r == converted_pages[t][i]
                  IN  /\ r.refinement_iterations = 0
                      /\ "quality_progression" \in DOMAIN r => r.quality_progression = <<>>
                      /\ "error" \notin DOMAIN r =>
                            r.html_content = [kind |-> "initial", page_number |-> i, rev |-> 0]

C9_Witness ==
    \E t \in Tasks :
        /\ max_iterations = 0
        /\ pc[t] = "done"
        /\ Len(converted_pages[t]) = 2
        /\ \A i \in 1..2 : "error" \notin DOMAIN converted_pages[t][i]

\* the page whose calls are logged has its result, and scoring was called for it
\* and failed every time
ScoringAlwaysFailed(t) ==
    /\ pc[t] \in {"gen", "generate", "combine", "returned", "done"}
    /\ converted_pages[t] # <<>>
    /\ "error" \notin DOMAIN Last(converted_pages[t])
    /\ CallsOf(t, "score") # {}
    /\ \A i \in CallsOf(t, "score") : calls[t][i].outcome = "api_error"

\* C10 (as claimed): when scoring fails in every iteration of a page, every
\* recorded score and the page's final score equal the default that is used
\* when no score was recorded.
C10_ScoringFailureGivesDefault ==
    \A t \in Tasks :
        ScoringAlwaysFailed(t) =>
            LET r == Last(converted_pages[t])
            IN  /\ \A j \in 1..Len(r.quality_progression) :
                      r.quality_progression[j] = EmptyHistoryScore
                /\ r.final_quality_score = EmptyHistoryScore

\* C11: a task has a result (the combined document) exactly when it is completed:
\* the engine's record holds a combined document iff its status is completed,
\* the value the engine returns carries one iff it is a success, and for a
\* registered task the status endpoint reports a result available, and the
\* download endpoint serves the document, iff the registry status is success
\* (a failed task's registry entry stores the error dict, which is no document).
C11_ResultIffCompleted ==
    \A t \in Tasks :
        /\ t \in DOMAIN active_tasks =>
              (active_tasks[t].combined_html # NoDocument
                  <=> active_tasks[t].status = "completed")
        /\ result[t] # NoResult =>
              ("combined_html" \in DOMAIN result[t] <=> result[t].status = "success")
        /\ t \in DOMAIN conversion_results =>
              /\ get_task_status(t).result_available
                    <=> conversion_results[t].status = "success"
              /\ download_html(t).status_code = 200
                    <=> conversion_results[t].status = "success"
              /\ conversion_results[t].status = "success" =>
                    /\ active_tasks[t].status = "completed"
                    /\ download_html(t).body = active_tasks[t].combined_html
                    /\ download_html(t).body.kind = "document"

C11_Witness ==
    \E t \in Tasks :
        /\ pc[t] = "done"
        /\ t \in DOMAIN conversion_results
        /\ conversion_results[t].status = "error"
        /\ conversion_results[t].result # NoResult
        /\ ~get_task_status(t).result_available
        /\ active_tasks[t].status = "failed"

\* C12: the completed-page count of a task never exceeds its page count, it
\* equals the number of page results collected (one per page, successful or
\* fallback, page i counted once), and it equals the page count when the task
\* is completed.
C12_CompletedPageCount ==
    \A t \in DOMAIN active_tasks :
        /\ active_tasks[t].completed_pages <= active_tasks[t].total_pages
        /\ active_tasks[t].completed_pages = Len(converted_pages[t])
        /\ \A i \in 1..Len(converted_pages[t]) : converted_pages[t][i].page_number = i
        /\ active_tasks[t].status = "completed" =>
              /\ active_tasks[t].completed_pages = active_tasks[t].total_pages
              /\ active_tasks[t].total_pages = Len(pages_data[t])

C12_Witness ==
    \E t \in DOMAIN active_tasks :
        /\ active_tasks[t].status = "completed"
        /\ active_tasks[t].total_pages = 2
        /\ active_tasks[t].completed_pages = 2
        /\ "error" \in DOMAIN converted_pages[t][2]
        /\ "error" \notin DOMAIN converted_pages[t][1]

\* C13 (as claimed): when the engine's run has returned, on whatever path, no
\* raster image and no screenshot of the run is left.
C13_ArtifactsReleased ==
    \A t \in Tasks :
        pc[t] \in {"returned", "done"} => temp_files[t] = 0 /\ ~screenshot[t]

\* positions of the coroutine between a successful start_browser and the
\* stop_browser of the same page
SessionPcs == {"loop", "refine", "score", "finish"}

\* C14 (as claimed): a renderer resource is open only while the page it was
\* started for is inside its refinement loop; once processing of the page has
\* returned or raised, nothing started for it is still open.
C14_SessionReleased ==
    \A h \in open_handles :
        /\ pc[h.owner.task] \in SessionPcs
        /\ page_idx[h.owner.task] = h.owner.page

\* C15: within a task the pages are processed one at a time in ascending page
\* order: the rasterizer's pages are numbered 1, 2, ... in sequence order, and
\* while page k is being processed exactly the pages 1 .. k-1 have their result
\* (successful or fallback), so page k+1 is never begun before page k is over.
C15_PagesSequential ==
    \A t \in Tasks :
        /\ \A i \in 1..Len(pages_data[t]) : pages_data[t][i].page_number = i
        /\ pc[t] \in PagePcs =>
              /\ page_idx[t] \in 1..Len(pages_data[t])
              /\ Len(converted_pages[t]) = page_idx[t] - 1
              /\ \A i \in 1..Len(converted_pages[t]) :
                    converted_pages[t][i].page_number = i
        /\ pc[t] \in {"combine", "returned", "done"} /\ Extracted(t) =>
              Len(converted_pages[t]) = Len(pages_data[t])

C15_Witness ==
    \E t \in Tasks :
        /\ pc[t] = "refine"
        /\ page_idx[t] = 2
        /\ Len(converted_pages[t]) = 1
        /\ "error" \in DOMAIN converted_pages[t][1]

\* C16 (as claimed): while a page is inside its refinement loop the renderer's
\* browser and context are the ones started for that page and they are open,
\* whatever other tasks do, and no page ever falls back because the renderer
\* was found not started.
C16_SessionExclusive ==
    \A t \in Tasks :
        /\ pc[t] \in SessionPcs =>
              /\ html_renderer.browser = Session(t)
              /\ html_renderer.context = Session(t)
              /\ Started(Session(t), 3) \subseteq open_handles
        /\ \A i \in 1..Len(converted_pages[t]) :
              "error" \in DOMAIN converted_pages[t][i] =>
                  converted_pages[t][i].error # "Browser not started"

\* the render of a page failed because another task had stopped the renderer
C16_RenderFailedByOtherTask ==
    \E t \in Tasks :
        /\ converted_pages[t] # <<>>
        /\ "error" \in DOMAIN converted_pages[t][1]
        /\ converted_pages[t][1].error = "Browser not started"

\* C17 (as claimed): every progress event handed over under a task's identifier
\* (the channel that task's observer is served from) was produced by the run of
\* that task.
C17_ProgressIsolated ==
    \A t \in Tasks :
        \A i \in DOMAIN published[t] :
            published[t][i].type = "progress" => published[t][i].data.task_id = t

\* task t leaves _rate_limit in this step: its generator call starts
CallStarts(t) == rate_limit[t].at # "passed" /\ rate_limit'[t].at = "passed"

\* C18 (as claimed): whenever a generator call starts, of whatever task, at
\* least the rate-limit interval has passed since the previous call started.
C18_CallsSpacedSystemWide ==
    [][\A t \in Tasks : CallStarts(t) => since_last_call >= RateLimitTicks]_vars

\* C19: what a task's observer is sent is a subsequence of what was published
\* for the task, in publish order: every delivery is a published message, and
\* a later delivery is a later publication (nothing reordered, nothing sent
\* twice), across send failures and reconnections.
C19_DeliveredInPublishOrder ==
    \A t \in Tasks :
        /\ \A i \in DOMAIN delivered[t] : delivered[t][i] \in DOMAIN published[t]
        /\ \A i, j \in DOMAIN delivered[t] : i < j => delivered[t][i] < delivered[t][j]

C19_Witness ==
    \E t \in Tasks :
        /\ Len(websockets) = 2
        /\ Len(delivered[t]) >= 4
        /\ published[t][Last(delivered[t])].type = "task_completed"
        /\ \E i \in DOMAIN published[t] :
              /\ i < Last(delivered[t])
              /\ i \notin Range(delivered[t])
              /\ published[t][i].type = "progress"

\* the i-th message task t's observer was sent
DeliveredMessage(t, i) == published[t][delivered[t][i]]

\* C20 (as claimed): every message an observer is sent carries a timestamp, and
\* the timestamps of the messages of one task are non-decreasing in the order
\* they are sent.
C20_TimestampsNonDecreasing ==
    \A t \in Tasks :
        \A i \in DOMAIN delivered[t] :
            /\ "timestamp" \in DOMAIN DeliveredMessage(t, i)
            /\ \A j \in DOMAIN delivered[t] :
                  i < j /\ "timestamp" \in DOMAIN DeliveredMessage(t, j) =>
                      DeliveredMessage(t, i).timestamp <= DeliveredMessage(t, j).timestamp


\* socket s was subscribed to task t for the whole run so far: it received
\* everything that was published for the task
SubscribedThroughout(t, s) ==
    /\ delivered[t] = [i \in DOMAIN published[t] |-> i]
    /\ \A i \in DOMAIN recipients[t] : recipients[t][i] = s

\* C21 (as claimed): an observer subscribed for the whole run of a task has
\* received, by the time it receives the task's Completed event, one
\* page_completed event per page, carrying the page's number.
C21_PageCompletedPerPage ==
    \A t \in Tasks : \A s \in DOMAIN websockets :
        ( /\ SubscribedThroughout(t, s)
          /\ published[t] # <<>>
          /\ Last(published[t]).type = "task_completed" )
        => \A p \in DOMAIN pages_data[t] :
              \E i \in DOMAIN delivered[t] :
                  /\ DeliveredMessage(t, i).type = "page_completed"
                  /\ DeliveredMessage(t, i).page_number = p


\* the socket of the latest subscribe for task t, 0 when there was none
LatestSocket(ws, t) ==
    IF \E s \in DOMAIN ws : ws[s].task_id = t
    THEN CHOOSE s \in DOMAIN ws :
            /\ ws[s].task_id = t
            /\ \A r \in DOMAIN ws : ws[r].task_id = t => r <= s
    ELSE 0

\* C22: a task has at most one active observer, the one that subscribed last:
\* whatever is delivered for the task in a step goes to the socket of the
\* latest subscribe, so that from a second subscribe on the first observer
\* receives nothing further.
C22_LatestObserverOnly ==
    [][\A t \in Tasks :
          \A i \in DOMAIN recipients'[t] \ DOMAIN recipients[t] :
              recipients'[t][i] = LatestSocket(websockets', t)]_vars

C22_Witness ==
    \E t \in Tasks :
        /\ Len(websockets) = 2
        /\ websockets[1].state = "open"
        /\ websockets[2].state = "open"
        /\ \E i, j \in DOMAIN recipients[t] :
              /\ i < j
              /\ recipients[t][i] = 1
              /\ DeliveredMessage(t, i).type = "progress"
              /\ recipients[t][j] = 2
              /\ DeliveredMessage(t, j).type = "progress"


\* a step in which a sender publishes for task t while no socket is stored for
\* it (connect, which stores one, is not such a step)
PublishedUnobserved(t) ==
    /\ Len(published'[t]) > Len(published[t])
    /\ active_connections[t] = 0
    /\ websockets' = websockets

\* C23: publishing an event for a task that has no active observer leaves the
\* subscriber map, the connection metadata and the event history as they were,
\* and nothing is delivered; the publishing step itself completes.
C23_PublishUnobservedNoOp ==
    [][\A t \in Tasks :
          PublishedUnobserved(t) =>
              /\ active_connections' = active_connections
              /\ connection_metadata' = connection_metadata
              /\ \A u \in Tasks : task_statuses'[u].messages = task_statuses[u].messages
              /\ delivered' = delivered]_vars

C23_Witness ==
    \E t \in Tasks :
        /\ active_connections[t] = 0
        /\ task_statuses[t].status = "success"
        /\ task_statuses[t].messages # <<>>
        /\ Last(published[t]).type = "task_completed"
        /\ Len(published[t]) \notin Range(task_statuses[t].messages)


\* what a task's outcome consists of: registry entry, engine record, page
\* results and the returned result
Outcome == <<conversion_results, active_tasks, converted_pages, result, pages_data>>

\* a step of an observer: a socket is accepted, starts to fail, is closed by its
\* client, or its endpoint ends
ObserverStep == websockets' # websockets

\* one of the collaborator calls made for the page last worked on raised
CollaboratorRaised(t) == \E i \in DOMAIN calls[t] : calls[t][i].outcome = "raised"

\* the page loop of task t is over
AfterPages(t) == pc[t] \in {"combine", "returned", "done"} /\ converted_pages[t] # <<>>

\* C24: a task's outcome does not depend on what observers do.  No observer
\* step changes the outcome; the page last worked on fell back exactly when one
\* of its collaborator calls raised; and the returned result is an error only
\* with an extraction error and a success only with one result per page.
C24_OutcomeIndependentOfObservers ==
    /\ [][ObserverStep => UNCHANGED <<Outcome, pc, page_idx, calls>>]_vars
    /\ [](\A t \in Tasks :
            /\ AfterPages(t) =>
                 ("error" \in DOMAIN Last(converted_pages[t]) <=> CollaboratorRaised(t))
            /\ result[t].status = "error" =>
                 /\ result[t].error \in ExtractionErrors
                 /\ converted_pages[t] = <<>>
            /\ result[t].status = "success" =>
                 /\ Len(converted_pages[t]) = Len(pages_data[t])
                 /\ result[t].pages = converted_pages[t]
                 /\ Len(result[t].errors) =
                      Cardinality({k \in DOMAIN converted_pages[t] :
                                      "error" \in DOMAIN converted_pages[t][k]}))

C24_Witness ==
    \E t \in Tasks :
        /\ pc[t] = "done"
        /\ t \in DOMAIN conversion_results
        /\ conversion_results[t].status = "success"
        /\ "error" \notin DOMAIN Last(converted_pages[t])
        /\ delivered[t] # <<>>
        /\ \E s \in DOMAIN websockets : websockets[s].state = "ended"
        /\ \E i \in DOMAIN published[t] :
              /\ i > delivered[t][1]
              /\ i \notin Range(delivered[t])
              /\ published[t][i].type = "progress"


\* C25 (as claimed): the event history of a task never holds more events than
\* the cap.
C25_HistoryWithinCap ==
    \A t \in Tasks : Len(task_statuses[t].messages) <= HistoryCap


\* C26 (as claimed): the most recent events published for a registered task, up
\* to the cap, are all in the task's history, whether or not an observer was
\* connected when they were published.
C26_PublishedRetained ==
    \A t \in DOMAIN conversion_results :
        \A i \in DOMAIN published[t] :
            i > Len(published[t]) - HistoryCap => i \in Range(task_statuses[t].messages)


\* C27 (as claimed): the explicit cleanup of a task leaves no state for it in
\* any component: no registry entry, no stored socket, no connection metadata,
\* no history, and no task record in the engine.
C27_CleanupRemovesEverything ==
    [][\A t \in Tasks :
          (t \in DOMAIN conversion_results /\ t \notin DOMAIN conversion_results') =>
              /\ active_connections'[t] = 0
              /\ connection_metadata'[t] = NoMetadata
              /\ task_statuses'[t] = NoTaskStatus
              /\ t \notin DOMAIN active_tasks']_vars


\* the registry shows task t with a terminal status
RegistryTerminal(t) ==
    /\ t \in DOMAIN conversion_results
    /\ conversion_results[t].status \in {"success", "error"}

\* C28 (as claimed): once a task is terminal, the response of the status poll
\* stays the same from one step to the next until the task is cleaned up,
\* whatever observers do in between.
C28_TerminalPollStable ==
    [][\A t \in Tasks :
          (RegistryTerminal(t) /\ t \in DOMAIN conversion_results') =>
              get_task_status(t)' = get_task_status(t)]_vars

\* what the status poll reports of the task itself, without the websocket fields
TaskFields(response) ==
    [status |-> response.status, result_available |-> response.result_available]

\* the part of C28 that holds: the task's own fields of the response are stable
C28_TaskFieldsStable ==
    [][\A t \in Tasks :
          (RegistryTerminal(t) /\ t \in DOMAIN conversion_results') =>
              TaskFields(get_task_status(t))' = TaskFields(get_task_status(t))]_vars


\* C29: the download of the final document succeeds exactly for a registered
\* task whose status is success, and then returns the combined document of the
\* task's result; for an unknown task it answers not-found, for a registered
\* task that is running or failed it answers with an error, and in both cases
\* the response carries no document.
C29_DownloadOnlyWhenCompleted ==
    \A t \in Tasks :
        /\ download_html(t).status_code = 200 <=>
              (t \in DOMAIN conversion_results /\ conversion_results[t].status = "success")
        /\ download_html(t).status_code = 200 =>
              download_html(t).body = result[t].combined_html
        /\ t \notin DOMAIN conversion_results => download_html(t) = [status_code |-> 404]
        /\ (t \in DOMAIN conversion_results /\ conversion_results[t].status # "success")
              => download_html(t) = [status_code |-> 400]

C29_Witness ==
    \E t, u \in Tasks :
        /\ t \in DOMAIN conversion_results
        /\ conversion_results[t].status = "error"
        /\ download_html(t).status_code = 400
        /\ u \notin DOMAIN conversion_results
        /\ download_html(u).status_code = 404


\* p is a fallback page
IsFallback(p) == "error" \in DOMAIN p

\* the error entries of the fallback pages among pages, in page order
FallbackErrors(pages) ==
    LET fb == SelectSeq(pages, IsFallback)
    IN  [i \in DOMAIN fb |-> PageError(fb[i], fb[i].error)]

\* exactly one Completed event was published for task t, and it carries the
\* combined document, the page count and one error per fallback page
OneCompletedEvent(t) ==
    /\ Cardinality(Events(t, "task_completed")) = 1
    /\ \A i \in Events(t, "task_completed") :
          /\ published[t][i].combined_html = _combine_pages_to_html(converted_pages[t])
          /\ published[t][i].total_pages = Len(pages_data[t])
          /\ published[t][i].errors = FallbackErrors(converted_pages[t])

\* C30 (as claimed): every task whose extraction succeeded and whose run is over
\* has exactly one Completed event, with the combined document, the page count
\* and one error entry per fallback page in page order.
C30_OneCompletedEvent ==
    \A t \in Tasks : (pc[t] = "done" /\ pages_data[t] # <<>>) => OneCompletedEvent(t)

\* the part of C30 that holds: the same for the tasks that were not cleaned up
\* while they were running
C30_UnlessCleanedUp ==
    \A t \in Tasks :
        (pc[t] = "done" /\ pages_data[t] # <<>> /\ t \in DOMAIN conversion_results)
            => OneCompletedEvent(t)


\* the age of registered task t
Age(t) == clock - conversion_results[t].created_at

\* C31 (as claimed): a task whose age has reached the retention window is no
\* longer in the registry, so that the status poll does not return it, whether
\* or not it was cleaned up.
C31_EvictedAfterWindow ==
    \A t \in DOMAIN conversion_results : Age(t) < RetentionWindow


\* the refinement calls of the page whose calls are logged that returned
RefineReturned(t) == {i \in DOMAIN calls[t] : calls[t][i] = Call("refine", "ok")}

\* the last candidate of a page after n refinement calls returned
LastCandidate(page_number, n) ==
    IF n = 0 THEN InitialHtml(page_number) ELSE RefinedHtml(page_number, n)

\* C32: the markup of a page result is the candidate of the last refinement
\* call that returned, or the initial candidate when none did, whatever the
\* recorded scores are: for every page result it is the candidate of as many
\* refinement calls as scores were recorded, and for the page whose calls are
\* logged that number is the number of refinement calls that returned.
C32_LastCandidateKept ==
    \A t \in Tasks :
        /\ \A i \in DOMAIN converted_pages[t] :
              LET r == converted_pages[t][i]
              IN  ~IsFallback(r) =>
                     r.html_content = LastCandidate(r.page_number, Len(r.quality_progression))
        /\ (AfterPages(t) /\ ~IsFallback(Last(converted_pages[t]))) =>
              Last(converted_pages[t]).html_content =
                 LastCandidate(Last(converted_pages[t]).page_number,
                               Cardinality(RefineReturned(t)))

C32_Witness ==
    \E t \in Tasks :
        /\ AfterPages(t)
        /\ ~IsFallback(Last(converted_pages[t]))
        /\ Last(converted_pages[t]).quality_progression = <<9, 3>>
        /\ Last(converted_pages[t]).html_content =
              RefinedHtml(Last(converted_pages[t]).page_number, 2)


\* score is the maximum of the non-empty sequence scores
IsMaximum(score, scores) ==
    /\ \E j \in DOMAIN scores : scores[j] = score
    /\ \A j \in DOMAIN scores : scores[j] <= score

\* C33: the final score of a page result that the refinement runner produced is
\* the maximum of the page's recorded quality history, or the neutral default
\* when no score was recorded; the history of the result is the list of scores
\* recorded during the page's iterations.
C33_FinalScoreIsMaximum ==
    \A t \in Tasks :
        /\ \A i \in DOMAIN converted_pages[t] :
              LET r == converted_pages[t][i]
              IN  ~IsFallback(r) =>
                     IF r.quality_progression = <<>>
                     THEN r.final_quality_score = EmptyHistoryScore
                     ELSE IsMaximum(r.final_quality_score, r.quality_progression)
        /\ (AfterPages(t) /\ ~IsFallback(Last(converted_pages[t]))) =>
              Last(converted_pages[t]).quality_progression = quality_scores[t]

C33_Witness ==
    \E t \in Tasks :
        /\ Len(converted_pages[t]) = 2
        /\ ~IsFallback(converted_pages[t][1])
        /\ converted_pages[t][1].quality_progression = <<9, 3>>
        /\ converted_pages[t][1].final_quality_score = 9
        /\ ~IsFallback(converted_pages[t][2])
        /\ converted_pages[t][2].refinement_iterations = 1
        /\ converted_pages[t][2].quality_progression = <<>>
        /\ converted_pages[t][2].final_quality_score = EmptyHistoryScore


\* C34: in the calls made for one page the initial generation call occurs
\* exactly once, whether it returned or raised; there are at most
\* max_iterations refinement calls; and a refinement call that raised is the
\* last call made for the page.
C34_CallsPerPageBounded ==
    \A t \in Tasks :
        /\ Cardinality(CallsOf(t, "generate")) <= 1
        /\ calls[t] # <<>> => calls[t][1].call = "generate"
        /\ (pc[t] \in PagePcs \ {"gen", "generate"} \/ AfterPages(t)) =>
              Cardinality(CallsOf(t, "generate")) = 1
        /\ Cardinality(CallsOf(t, "refine")) <= max_iterations
        /\ \A i \in CallsOf(t, "refine") :
              calls[t][i].outcome = "raised" => i = Len(calls[t])

C34_Witness ==
    \E t \in Tasks :
        /\ max_iterations = 2
        /\ pc[t] = "done"
        /\ Len(converted_pages[t]) = 2
        /\ IsFallback(converted_pages[t][1])
        /\ converted_pages[t][1].error = "Failed to generate HTML"
        /\ RefineFailed(t)
        /\ Cardinality(CallsOf(t, "refine")) = 1


\* the last collaborator call made for task t was a render that raised
RenderFailed(t) == calls[t] # <<>> /\ Last(calls[t]) = Call("render", "raised")

\* the errors render_and_screenshot raises
RenderErrors == {"Failed to render HTML", "Browser not started"}

\* C35 (as claimed): when render_and_screenshot raises in an iteration of a
\* page, the page fails: no browser handle of the page's session stays open,
\* the page's result is the fallback placeholder with 0 iterations and score 0
\* whatever markup had been generated, the task's error list ends with the
\* page's error, the task is not failed, and the run goes on with the next page
\* or the assembly.
C35_RenderFailureIsPageFailure ==
    \A t \in Tasks :
        RenderFailed(t) =>
            LET k == Len(converted_pages[t])
            IN  /\ k >= 1
                /\ \A h \in open_handles : h.owner # [task |-> t, page |-> k]
                /\ \E e \in RenderErrors :
                      /\ converted_pages[t][k] = FallbackPage(pages_data[t][k], e)
                      /\ Last(active_tasks[t].errors) = PageError(pages_data[t][k], e)
                /\ converted_pages[t][k].refinement_iterations = 0
                /\ converted_pages[t][k].final_quality_score = 0
                /\ converted_pages[t][k].html_content.kind = "fallback"
                /\ active_tasks[t].status # "failed"
                /\ IF k < Len(pages_data[t])
                   THEN pc[t] \in {"gen", "generate"} /\ page_idx[t] = k + 1
                   ELSE pc[t] \in {"combine", "returned", "done"}


\* the endpoint of socket s ends in this step
EndpointEnds(s) ==
    /\ s \in DOMAIN websockets
    /\ websockets[s].state = "closed"
    /\ websockets'[s].state = "ended"

\* C36 (as claimed): when the endpoint of a superseded socket ends while the
\* socket that superseded it is stored for the task and open, that socket stays
\* stored: the task keeps its active observer.
C36_SupersededDisconnectHarmless ==
    [][\A s \in DOMAIN websockets :
          LET t == websockets[s].task_id
          IN  ( /\ EndpointEnds(s)
                /\ active_connections[t] \notin {0, s}
                /\ websockets[active_connections[t]].state = "open" )
              => active_connections'[t] = active_connections[t]]_vars


\* C37 (as claimed): a run whose engine call has returned and whose coroutine is
\* over has published exactly one terminal event, a Completed event exactly
\* when the engine returned success and an Error event exactly when it returned
\* an error, whether or not the task was cleaned up in between.
C37_OneTerminalEventMatchingOutcome ==
    \A t \in Tasks :
        (pc[t] = "done" /\ result[t] # NoResult) =>
            /\ Cardinality(Events(t, "task_completed") \cup Events(t, "error")) = 1
            /\ result[t].status = "success" <=> Events(t, "task_completed") # {}
            /\ result[t].status = "error" <=> Events(t, "error") # {}

\* the part of C37 that holds: the same for the tasks that still have their
\* registry entry when the coroutine is over
C37_UnlessCleanedUp ==
    \A t \in Tasks :
        (pc[t] = "done" /\ result[t] # NoResult /\ t \in DOMAIN conversion_results) =>
            /\ Cardinality(Events(t, "task_completed") \cup Events(t, "error")) = 1
            /\ result[t].status = "success" <=> Events(t, "task_completed") # {}
            /\ result[t].status = "error" <=> Events(t, "error") # {}


\* the Completed events of task t that were sent on a socket
CompletedDelivered(t) ==
    {i \in DOMAIN delivered[t] : DeliveredMessage(t, i).type = "task_completed"}

\* C38: in every state in which a Completed event of a task has been delivered
\* to an observer and the task has not been cleaned up, the registry shows the
\* task as success with its result available, and the download returns the
\* document the event carried.
C38_CompletedImpliesDownloadable ==
    \A t \in Tasks :
        \A i \in CompletedDelivered(t) :
            t \in DOMAIN conversion_results =>
                /\ get_task_status(t).status = "success"
                /\ get_task_status(t).result_available
                /\ download_html(t).status_code = 200
                /\ download_html(t).body = DeliveredMessage(t, i).combined_html

C38_Witness ==
    \E t \in Tasks :
        /\ CompletedDelivered(t) # {}
        /\ t \in DOMAIN conversion_results
        /\ download_html(t).status_code = 200


\* C39 (as claimed): from the capture of an iteration's screenshot until the
\* refine and scoring calls of that iteration have used it, the screenshot
\* exists, whatever other tasks do.
C39_ScreenshotKeptForIteration ==
    \A t \in Tasks : pc[t] \in {"refine", "score"} => screenshot[t]


\* the broadcaster holds something for task id t
BroadcasterHolds(t) ==
    \/ active_connections[t] # 0
    \/ connection_metadata[t] # NoMetadata
    \/ task_statuses[t] # NoTaskStatus

\* C40 (as claimed): the broadcaster holds a subscriber, connection metadata or
\* a history only for task ids that are in the registry.
C40_BroadcasterStateOnlyForRegistered ==
    \A t \in Tasks : BroadcasterHolds(t) => t \in DOMAIN conversion_results

=============================================================================
